---- MODULE Spec2Model ----
(***************************************************************************)
(* dxcapture: the capture session (Capture), its frame slot, the pull path *)
(* (take / surface_to_data / get_raw_frame) and the creation of the        *)
(* graphics device (Device), as state machines.                            *)
(*                                                                         *)
(*   Spec         the capture session: construction, clones, the arrival   *)
(*                callback on the capture worker, pulls and drops on the   *)
(*                consumer thread.                                         *)
(*   SpecExtract  surface_to_data on an arbitrary texture description.     *)
(*   SpecDevice   Device::new / Device::new_from_displays.                 *)
(***************************************************************************)
EXTENDS Integers, Sequences, FiniteSets, TLC

\* ------------------------------------------------------------ constants
\* Values of the Direct3D constants capture.rs imports.
DXGI_FORMAT_B8G8R8A8_UNORM == 87
D3D11_USAGE_STAGING == 3
D3D11_CPU_ACCESS_READ == 131072
\* capture.rs:197, the match arm's value.
bytes_per_pixel == 4

\* --------------------------------------------------------------- bounds
MaxHandles == 2      \* handles to one session: the original and its clones
MaxGen == 2          \* frames published to the slot in one run
MaxWidth == 2        \* item_size.Width  ranges over 1..MaxWidth
MaxHeight == 2       \* item_size.Height ranges over 1..MaxHeight
MaxPad == 1          \* RowPitch - Width*4 ranges over 0..MaxPad
MaxDisplays == 3     \* enumerate_displays().len() ranges over 0..MaxDisplays
MaxWindows == 2      \* get_capturable_windows().len() ranges over 0..MaxWindows

\* A byte no texel of the model holds: the content of row padding.
PadByte == 2^8 - 1

\* The descriptions surface_to_data is tried on: BGRA8 and R8G8B8A8 (28); the
\* four D3D11_USAGE values; CPU access none, WRITE (65536), READ, READ|WRITE.
Formats == {DXGI_FORMAT_B8G8R8A8_UNORM, 28}
Usages == 0..D3D11_USAGE_STAGING
CpuAccessFlags == {0, 65536, D3D11_CPU_ACCESS_READ, D3D11_CPU_ACCESS_READ + 65536}

VARIABLES
    item_size,    \* device.item.Size(): [Width, Height]
    frame_pool,   \* Direct3D11CaptureFramePool: "none" | "open" | "closed"
    session,      \* GraphicsCaptureSession: "none" | "created" | "started" | "closed"
    registered,   \* frame_pool.FrameArrived(handler) has succeeded
    ctor,         \* Capture::new: "pending" | "Ok" | "Err"
    handles,      \* the Capture values: [1..MaxHandles -> [st, active]]
    closeCalls,   \* Close() calls made: [session |-> n, frame_pool |-> n]
    texture,      \* the Arc<Mutex<Option<ID3D11Texture2D>>>'s content
    lock,         \* the Mutex: "free" | "callback" | "consumer" | "poisoned"
    published,    \* stores to the slot so far (the generation counter)
    cb,           \* the arrival callback in flight: [pc, tex, result]
    con,          \* the consumer thread: [pc, h, surface, mapped, data, ...]
    res,          \* the outcome of the consumer's last finished pull
    prevGen,      \* the generation observed by the pull before that one
    mappedTex,    \* generations of the textures Map()ped and not yet Unmap()ped
    env,          \* the system Device is created on: monitors, windows, console
    dev           \* the Device creation call running or last finished

vars == <<item_size, frame_pool, session, registered, ctor, handles, closeCalls,
          texture, lock, published, cb, con, res, prevGen, mappedTex, env, dev>>

captureVars == <<item_size, frame_pool, session, registered, ctor, handles,
                 closeCalls, texture, lock, published, cb, con, res, prevGen,
                 mappedTex>>

deviceVars == <<env, dev>>

\* ------------------------------------------------------------- textures
\* Option<ID3D11Texture2D>: None, or a texture with its D3D11_TEXTURE2D_DESC.
\* gen is the generation the slot store gave it; copied says CopyResource
\* has been issued into it.
None ==
    [some |-> FALSE, gen |-> 0, Width |-> 0, Height |-> 0, Format |-> 0,
     Usage |-> 0, CPUAccessFlags |-> 0, copied |-> FALSE]

\* The staging description the callback derives from the frame's texture.
StagingDesc(size) ==
    [some |-> TRUE, gen |-> 0, Width |-> size.Width, Height |-> size.Height,
     Format |-> DXGI_FORMAT_B8G8R8A8_UNORM, Usage |-> D3D11_USAGE_STAGING,
     CPUAccessFlags |-> D3D11_CPU_ACCESS_READ, copied |-> FALSE]

\* The byte of generation g's frame at row r, byte column c of the row.
TexByte(g, r, c) == (g * 64 + r * 16 + c) % 251

\* What Map() exposes: Height rows of RowPitch bytes each, the first
\* Width*4 of a row being texels and the rest padding.
MappedBytes(t, pitch) ==
    [i \in 1..(t.Height * pitch) |->
        LET r == (i - 1) \div pitch
            c == (i - 1) % pitch
        IN IF c < t.Width * bytes_per_pixel THEN TexByte(t.gen, r, c) ELSE PadByte]

NoMap == [RowPitch |-> 0, pData |-> <<>>]

IdleCb == [pc |-> "idle", tex |-> None, result |-> "none"]

IdleCon ==
    [pc |-> "idle", h |-> 0, surface |-> None, mapped |-> NoMap, data |-> <<>>,
     closedAtStart |-> FALSE, pubAtStart |-> 0, seenGen |-> 0, mode |-> "raw",
     retried |-> FALSE, unwinding |-> "none"]

\* Where the consumer is while it runs a pull: take, then surface_to_data.
PullPcs ==
    {"take", "lock1", "isnone", "lock2", "read", "s2d", "validated", "mapped",
     "copied"}

\* Where a panic has left the consumer thread: the stack is unwinding.
PanicPcs ==
    {"panic_poison", "panic_unwrap", "panic_copy", "panic_from_raw", "panic_drop"}

\* A panic raised while the thread was already unwinding aborts the process:
\* no thread of it takes another step.
Aborted == con.pc = "abort"

NoRes ==
    [kind |-> "none", code |-> 0, stage |-> "none", surface |-> None,
     width |-> 0, height |-> 0, data |-> <<>>, RowPitch |-> 0,
     closedAtStart |-> FALSE, pubAtStart |-> 0, active |-> FALSE,
     mode |-> "none", retried |-> FALSE]

\* dev: the call of the thread that creates devices. pc is where a running
\* new_from_window is, saved the console title it read, windows the list
\* EnumWindows gave it; st, msg and index are the outcome of the finished call.
NoDev ==
    [call |-> "none", display_id |-> -1, caption |-> <<>>, st |-> "none",
     msg |-> "", index |-> -1, pc |-> "idle", saved |-> <<>>, windows |-> <<>>]

\* Another thread of the process inside get_capturable_windows.
NoOther == [pc |-> "idle", saved |-> <<>>]

\* The title the process's console has when the program starts.
ConsoleTitle == <<"a", "B">>

\* The system devices are created on: the monitors, the titles of the
\* capturable windows in the order EnumWindows reports them, the title of the
\* process's console, and the other thread. console is the position of the
\* console's own window among the capturable windows, 0 when it is not one of
\* them (hidden, or the process has no console window); the caption of that
\* window is the console title.
Env(nDisplays, windows, console) ==
    [nDisplays |-> nDisplays, windows |-> windows, console |-> console,
     console_title |-> ConsoleTitle, other |-> NoOther]

Handles == 1..MaxHandles

\* ------------------------------------------------------- Capture::new
\* The fallible steps of Capture::new, in the order the code takes them:
\* get_immediate_context, item.Size, CreateFreeThreaded, CreateCaptureSession,
\* FrameArrived (registration), StartCapture.
\* (NewStepsStartFirst: the faulty order that starts the session before the
\* callback is registered.)
NewStepsStartFirst == <<"context", "size", "pool", "session", "start", "register">>
NewSteps == <<"context", "size", "pool", "session", "register", "start">>

StepIndex(s) == CHOOSE i \in 1..Len(NewSteps) : NewSteps[i] = s

\* Step s has completed when construction fails at step fail ("none": at none).
StepDone(s, fail) == fail = "none" \/ StepIndex(s) < StepIndex(fail)

\* Capture::new(&device): each `?` may return early; what the earlier steps
\* created stays as they left it, and no Capture value exists on failure.
New ==
    /\ ctor = "pending"
    /\ \E fail \in {"none"} \cup {NewSteps[i] : i \in 1..Len(NewSteps)} :
        /\ frame_pool' = IF StepDone("pool", fail) THEN "open" ELSE "none"
        /\ session' = IF StepDone("start", fail) THEN "started"
                       ELSE IF StepDone("session", fail) THEN "created" ELSE "none"
        /\ registered' = StepDone("register", fail)
        /\ ctor' = IF fail = "none" THEN "Ok" ELSE "Err"
        /\ handles' = IF fail = "none"
                       THEN [handles EXCEPT ![1] = [st |-> "live", active |-> TRUE]]
                       ELSE handles
    /\ UNCHANGED <<item_size, closeCalls, texture, lock, published, cb, con, res,
                   prevGen, mappedTex, env, dev>>

\* #[derive(Clone)]: every field is cloned; the COM references and the Arc
\* are shared, the bool is copied. The new value h2 is the next Capture the
\* program has not had yet.
Clone(h, h2) ==
    /\ con.pc = "idle"
    /\ handles[h].st = "live"
    /\ handles[h2].st = "none"
    /\ \A k \in 1..(h2 - 1) : handles[k].st # "none"
    /\ handles' = [handles EXCEPT ![h2] = [st |-> "live", active |-> handles[h].active]]
    /\ UNCHANGED <<item_size, frame_pool, session, registered, ctor, closeCalls,
                   texture, lock, published, cb, con, res, prevGen, mappedTex,
                   env, dev>>

\* ------------------------------------------------- the arrival callback
\* The frame pool raises FrameArrived while the session captures.
CanDeliver == session = "started" /\ frame_pool = "open" /\ registered

\* A step of the closure returned Err through `?`: the closure returns the
\* error to the frame pool; result is what the last finished callback returned.
CbFail == [pc |-> "idle", tex |-> None, result |-> "Err"]

\* The slot after a callback that returned early: the store at the end of the
\* closure was never reached. (SlotCleared: the faulty variant that empties it.)
SlotCleared(t) == None
SlotOnCbFail(t) == t

\* TryGetNextFrame()?, frame.Surface()?, from_direct3d_surface(&surface)?
CbStart ==
    /\ ~Aborted
    /\ cb.pc = "idle"
    /\ CanDeliver
    /\ published < MaxGen
    /\ \E ok \in BOOLEAN :
        /\ cb' = IF ok THEN [pc |-> "frame", tex |-> None, result |-> cb.result]
                  ELSE CbFail
        /\ texture' = IF ok THEN texture ELSE SlotOnCbFail(texture)
    /\ UNCHANGED <<item_size, frame_pool, session, registered, ctor, handles,
                   closeCalls, lock, published, con, res, prevGen,
                   mappedTex, env, dev>>

\* GetDesc, the staging description, CreateTexture2D(&desc, null)?
CbCreate ==
    /\ ~Aborted
    /\ cb.pc = "frame"
    /\ \E ok \in BOOLEAN :
        /\ cb' = IF ok THEN [pc |-> "texture", tex |-> StagingDesc(item_size),
                             result |-> cb.result]
                  ELSE CbFail
        /\ texture' = IF ok THEN texture ELSE SlotOnCbFail(texture)
    /\ UNCHANGED <<item_size, frame_pool, session, registered, ctor, handles,
                   closeCalls, lock, published, con, res, prevGen,
                   mappedTex, env, dev>>

\* d3d_context.CopyResource(&copy_texture, &frame_texture)
CbCopy ==
    /\ ~Aborted
    /\ cb.pc = "texture"
    /\ cb' = [cb EXCEPT !.pc = "copied", !.tex.copied = TRUE]
    /\ UNCHANGED <<item_size, frame_pool, session, registered, ctor, handles,
                   closeCalls, texture, lock, published, con, res, prevGen,
                   mappedTex, env, dev>>

\* The callback reaches the slot store once the copy has been issued.
\* (CbPublishEarly: the faulty variant that may store before CopyResource.)
CbPublishEarly(c) == c.pc \in {"texture", "copied"}
CbPublishReady(c) == c.pc = "copied"

\* texture.lock().unwrap(): blocks while the mutex is held, panics if poisoned.
CbLock ==
    /\ ~Aborted
    /\ CbPublishReady(cb)
    /\ lock \in {"free", "poisoned"}
    /\ IF lock = "poisoned"
       THEN cb' = [cb EXCEPT !.pc = "panic_poison"] /\ UNCHANGED lock
       ELSE cb' = [cb EXCEPT !.pc = "locked"] /\ lock' = "callback"
    /\ UNCHANGED <<item_size, frame_pool, session, registered, ctor, handles,
                   closeCalls, texture, published, con, res, prevGen, mappedTex,
                   env, dev>>

\* *guard = Some(copy_texture): the assignment replaces whatever the slot held.
\* (SlotStoreKeepOld: the faulty variant that keeps a texture already held.)
SlotStoreKeepOld(old, new) == IF old.some THEN old ELSE new
\* (SlotStoreTakesOld: the faulty variant that empties a slot that holds a
\* texture instead of replacing its content.)
SlotStoreTakesOld(old, new) == IF old.some THEN None ELSE new
SlotStore(old, new) == new

\* *texture.lock().unwrap() = Some(copy_texture); the guard drops at the end
\* of the statement.
CbStore ==
    /\ ~Aborted
    /\ cb.pc = "locked"
    /\ texture' = SlotStore(texture, [cb.tex EXCEPT !.gen = published + 1])
    /\ published' = published + 1
    /\ lock' = "free"
    /\ cb' = [pc |-> "idle", tex |-> None, result |-> "Ok"]
    /\ UNCHANGED <<item_size, frame_pool, session, registered, ctor, handles,
                   closeCalls, con, res, prevGen, mappedTex, env, dev>>

\* --------------------------------------------------------- the pull path
\* The calls that pull a frame: get_raw_frame, get_img_frame, get_mat_frame,
\* and the loops wait_img_frame and wait_mat_frame around the latter two.
WaitModes == {"wait_img", "wait_mat"}
ImgModes == {"img", "wait_img"}
MatModes == {"mat", "wait_mat"}

\* wait_*_frame: if e == CaptureError::NoTexture { continue; }
\* (RetryOnAnyError: the faulty variant that goes round on every Err.)
RetryOnAnyError(kind) == kind # "Ok"
Retry(kind) == kind = "NoTexture"

NoOut == [width |-> 0, height |-> 0, data |-> <<>>]

\* The underlying session and frame pool have both been closed.
Closed == session = "closed" /\ frame_pool = "closed"

\* A pull has returned kind. In a wait loop an outcome the loop retries on
\* starts the next get_*_frame call; any other outcome is what the call
\* returns: it is recorded and the consumer is idle.
Finish(kind, code, stage, out) ==
    IF con.mode \in WaitModes /\ Retry(kind)
    THEN /\ con' = [IdleCon EXCEPT !.pc = "take", !.h = con.h, !.mode = con.mode,
                                   !.closedAtStart = Closed,
                                   !.pubAtStart = published, !.retried = TRUE]
         /\ UNCHANGED <<res, prevGen>>
    ELSE /\ res' = [kind |-> kind, code |-> code, stage |-> stage,
                    surface |-> con.surface, width |-> out.width,
                    height |-> out.height, data |-> out.data,
                    RowPitch |-> con.mapped.RowPitch,
                    closedAtStart |-> con.closedAtStart,
                    pubAtStart |-> con.pubAtStart,
                    active |-> handles[con.h].active, mode |-> con.mode,
                    retried |-> con.retried]
         /\ prevGen' = IF res.surface.some THEN res.surface.gen ELSE prevGen
         /\ con' = IdleCon

\* get_raw_frame(&self) is called on a Capture the consumer owns.
PullBegin(h) ==
    /\ con.pc = "idle"
    /\ handles[h].st = "live"
    /\ con' = [IdleCon EXCEPT !.pc = "take", !.h = h, !.closedAtStart = Closed,
                              !.pubAtStart = published]
    /\ UNCHANGED <<item_size, frame_pool, session, registered, ctor, handles,
                   closeCalls, texture, lock, published, cb, res, prevGen,
                   mappedTex, env, dev>>

\* take: if !self.active { return Err(NotActive) }
TakeActive ==
    /\ con.pc = "take"
    /\ IF ~handles[con.h].active
       THEN Finish("NotActive", 0, "take", NoOut)
       ELSE con' = [con EXCEPT !.pc = "lock1"] /\ UNCHANGED <<res, prevGen>>
    /\ UNCHANGED <<item_size, frame_pool, session, registered, ctor, handles,
                   closeCalls, texture, lock, published, cb, mappedTex, env, dev>>

\* Mutex::lock().unwrap() on the consumer: pc moves from `from` to `to`.
ConLock(from, to) ==
    /\ con.pc = from
    /\ lock \in {"free", "poisoned"}
    /\ IF lock = "poisoned"
       THEN con' = [con EXCEPT !.pc = "panic_poison"] /\ UNCHANGED lock
       ELSE con' = [con EXCEPT !.pc = to] /\ lock' = "consumer"
    /\ UNCHANGED <<item_size, frame_pool, session, registered, ctor, handles,
                   closeCalls, texture, published, cb, res, prevGen, mappedTex,
                   env, dev>>

\* take: the first self.texture.lock()
TakeLock1 == ConLock("lock1", "isnone")

\* Option::is_none
\* (SlotNeverNone: the faulty variant that lets an empty slot through.)
SlotNeverNone(t) == FALSE
SlotIsNone(t) == ~t.some

\* The MutexGuard of `if self.texture.lock().unwrap().is_none()` is a
\* temporary of the condition: it is dropped before the branch is taken and
\* before the second lock(). (IsNoneGuardKept: the faulty variant that binds
\* the guard, so that the second lock() is nested in the first.)
IsNoneGuardKept(holder) == holder
IsNoneGuardDropped(holder) == "free"

\* take: if guard.is_none() { return Err(NoTexture) }; the guard is a temporary
\* of the condition and drops before the branch is taken.
TakeIsNone ==
    /\ con.pc = "isnone"
    /\ lock' = IsNoneGuardDropped(lock)
    /\ IF SlotIsNone(texture)
       THEN Finish("NoTexture", 0, "take", NoOut)
       ELSE /\ con' = [con EXCEPT !.pc = "lock2", !.seenGen = texture.gen]
            /\ UNCHANGED <<res, prevGen>>
    /\ UNCHANGED <<item_size, frame_pool, session, registered, ctor, handles,
                   closeCalls, texture, published, cb, mappedTex, env, dev>>

\* take: the second self.texture.lock()
TakeLock2 == ConLock("lock2", "read")

\* guard.as_ref() borrows the slot's content and leaves it in place.
\* (SlotTaken: the faulty variant that moves the texture out, as take() would.)
SlotTaken(t) == None
SlotAfterRead(t) == t

\* The MutexGuard of `let surface = ...lock().unwrap()...?;` is a temporary of
\* that statement: it is dropped, and the mutex released, when the statement
\* ends, whether by `?` or normally. (ReadGuardKept: the faulty variant that
\* binds the guard, keeping the mutex for the rest of the pull.)
ReadGuardKept(holder) == holder
ReadGuardDropped(holder) == "free"

\* take: to_direct3d_surface(guard.as_ref().unwrap()).map_err(DirectxError)?
\* The guard lives to the end of the let statement; unwrap() on None panics
\* with the guard held, which poisons the mutex.
TakeRead ==
    /\ con.pc = "read"
    /\ IF ~texture.some
       THEN /\ con' = [con EXCEPT !.pc = "panic_unwrap"]
            /\ lock' = "poisoned"
            /\ UNCHANGED <<res, prevGen, texture>>
       ELSE /\ lock' = ReadGuardDropped(lock)
            /\ texture' = SlotAfterRead(texture)
            /\ \E ok \in BOOLEAN :
                IF ok
                THEN /\ con' = [con EXCEPT !.pc = "s2d", !.surface = texture]
                     /\ UNCHANGED <<res, prevGen>>
                ELSE Finish("DirectxError", 0, "take", NoOut)
    /\ UNCHANGED <<item_size, frame_pool, session, registered, ctor, handles,
                   closeCalls, published, cb, mappedTex, env, dev>>

\* ------------------------------------------------------ surface_to_data
\* (desc.CPUAccessFlags & D3D11_CPU_ACCESS_READ) == D3D11_CPU_ACCESS_READ
HasCpuRead(flags) == (flags \div D3D11_CPU_ACCESS_READ) % 2 = 1

\* The checks of the description, in the code's order: the format match,
\* then the usage, then the CPU access.
\* (ValidateUsageFirst: the faulty variant that checks the usage first.)
ValidateUsageFirst(desc) ==
    IF desc.Usage = D3D11_USAGE_STAGING
    THEN IF desc.Format # DXGI_FORMAT_B8G8R8A8_UNORM THEN "UnsupportedPixelFormat"
         ELSE IF HasCpuRead(desc.CPUAccessFlags) THEN "pass"
         ELSE "DeniedAccessCpuRead"
    ELSE "UnsupportedBufferType"
Validate(desc) ==
    IF desc.Format # DXGI_FORMAT_B8G8R8A8_UNORM THEN "UnsupportedPixelFormat"
    ELSE IF desc.Usage = D3D11_USAGE_STAGING
         THEN IF HasCpuRead(desc.CPUAccessFlags) THEN "pass"
              ELSE "DeniedAccessCpuRead"
         ELSE "UnsupportedBufferType"

\* from_direct3d_surface(surface).map_err(DirectxError)?, GetDesc, the checks.
S2dValidate ==
    /\ con.pc = "s2d"
    /\ \E castOk \in BOOLEAN :
        IF ~castOk
        THEN Finish("DirectxError", 0, "cast", NoOut)
        ELSE LET v == Validate(con.surface) IN
             IF v = "pass"
             THEN con' = [con EXCEPT !.pc = "validated"] /\ UNCHANGED <<res, prevGen>>
             ELSE Finish(v, IF v = "UnsupportedPixelFormat" THEN con.surface.Format
                            ELSE 0, "validate", NoOut)
    /\ UNCHANGED <<item_size, frame_pool, session, registered, ctor, handles,
                   closeCalls, texture, lock, published, cb, mappedTex, env, dev>>

\* The RowPitch values Map() reports: a conforming driver pads a row of
\* Width * 4 bytes; the code itself accepts whatever u32 it is handed.
RowPitches(width) == {width * bytes_per_pixel + pad : pad \in 0..MaxPad}
AnyRowPitches(width) == 0..(width * bytes_per_pixel + MaxPad)

\* The texture surface_to_data maps: d3d_texture, the cast of the surface take
\* returned, which owns a reference to the staging texture read from the slot.
\* (MapSourceSlot: the faulty variant that maps whatever the slot holds now.)
MapSourceSlot(held, slot) == slot
MapSource(held, slot) == held

\* d3d_context.Map(&d3d_texture, 0, D3D11_MAP_READ, 0).map_err(DirectxError)?
MapWith(pitches) ==
    /\ con.pc = "validated"
    /\ \/ /\ Finish("DirectxError", 0, "map", NoOut)
          /\ UNCHANGED mappedTex
       \/ \E pitch \in pitches :
            /\ con' = [con EXCEPT !.pc = "mapped",
                                  !.mapped = [RowPitch |-> pitch,
                                              pData |-> MappedBytes(MapSource(con.surface,
                                                                              texture),
                                                                    pitch)]]
            /\ mappedTex' = mappedTex \cup {MapSource(con.surface, texture).gen}
            /\ UNCHANGED <<res, prevGen>>
    /\ UNCHANGED <<item_size, frame_pool, session, registered, ctor, handles,
                   closeCalls, texture, lock, published, cb, env, dev>>

\* Map() as a conforming driver answers it: RowPitch >= Width * 4.
S2dMap == MapWith(RowPitches(con.surface.Width))

\* Map() answering with any RowPitch.
S2dMapAnyPitch == MapWith(AnyRowPitches(con.surface.Width))

\* vec![0u8; ((width * height) * bytes_per_pixel) as usize]
\* (DataLenNoBpp: the faulty variant that sizes the buffer in pixels.)
DataLenNoBpp(width, height) == width * height
DataLen(width, height) == (width * height) * bytes_per_pixel

\* One turn of the row loop: data[data_begin..data_end]
\*   .copy_from_slice(&slice[slice_begin..slice_end])
\* (CopyRowNoPitch: the faulty variant that reads the mapped rows as if they
\* were tightly packed.)
CopyRowNoPitch(data, slice, row, width, pitch) ==
    LET data_begin == row * (width * bytes_per_pixel)
        data_end == (row + 1) * (width * bytes_per_pixel)
        slice_begin == row * (width * bytes_per_pixel)
    IN [i \in 1..Len(data) |->
           IF data_begin < i /\ i <= data_end
           THEN slice[slice_begin + (i - data_begin)] ELSE data[i]]
CopyRow(data, slice, row, width, pitch) ==
    LET data_begin == row * (width * bytes_per_pixel)
        data_end == (row + 1) * (width * bytes_per_pixel)
        slice_begin == row * pitch
    IN [i \in 1..Len(data) |->
           IF data_begin < i /\ i <= data_end
           THEN slice[slice_begin + (i - data_begin)] ELSE data[i]]

\* for row in 0..height { ... }, from row `row` on.
RECURSIVE CopyRows(_, _, _, _, _, _)
CopyRows(data, slice, row, width, height, pitch) ==
    IF row >= height THEN data
    ELSE CopyRows(CopyRow(data, slice, row, width, pitch), slice, row + 1,
                  width, height, pitch)

\* A range of the loop falls outside its buffer: the slice index panics.
CopyPanics(width, height, pitch, dataLen) ==
    \E row \in 0..(height - 1) :
        \/ row * pitch + width * bytes_per_pixel > height * pitch
        \/ (row + 1) * (width * bytes_per_pixel) > dataLen

\* The slice over the mapped memory, the output vector and the row loop.
S2dCopy ==
    /\ con.pc = "mapped"
    /\ LET width == con.surface.Width
           height == con.surface.Height
           len == DataLen(width, height)
       IN IF CopyPanics(width, height, con.mapped.RowPitch, len)
          THEN con' = [con EXCEPT !.pc = "panic_copy"]
          ELSE con' = [con EXCEPT !.pc = "copied",
                          !.data = CopyRows([i \in 1..len |-> 0], con.mapped.pData,
                                            0, width, height, con.mapped.RowPitch)]
    /\ UNCHANGED <<item_size, frame_pool, session, registered, ctor, handles,
                   closeCalls, texture, lock, published, cb, res, prevGen,
                   mappedTex, env, dev>>

\* DynamicImage::ImageBgra8(image).to_rgba8(): every pixel B,G,R,A becomes
\* R,G,B,A, bytes 0 and 2 of each pixel changing places.
to_rgba8(data) ==
    [i \in 1..Len(data) |->
        LET k == (i - 1) % 4
        IN IF k = 0 THEN data[i + 2] ELSE IF k = 2 THEN data[i - 2] ELSE data[i]]

\* The pixel bytes the call returns: get_img_frame hands out the RGBA image,
\* get_raw_frame and get_mat_frame the BGRA bytes of the RawFrameData (the
\* Mat points into that vector, which MatFrameData keeps).
FrameData(mode, data) == IF mode \in ImgModes THEN to_rgba8(data) ELSE data

\* What get_img_frame / get_mat_frame make of the RawFrameData:
\* ImageBuffer::from_raw(width, height, data).unwrap() is None, and panics,
\* when data is shorter than width * height * 4; Mat::new_rows_cols_with_data
\* may fail, which is returned as OpencvError.
Wrap(mode, width, height, data, wrapOk) ==
    IF mode \in ImgModes
    THEN IF Len(data) < width * height * 4 THEN "panic_from_raw" ELSE "Ok"
    ELSE IF mode \in MatModes /\ ~wrapOk THEN "OpencvError" ELSE "Ok"

\* d3d_context.Unmap(&d3d_texture, 0); Ok(RawFrameData{width, height, data});
\* then the caller's wrapping of the raw frame.
S2dUnmap ==
    /\ con.pc = "copied"
    /\ mappedTex' = mappedTex \ {con.surface.gen}
    /\ \E wrapOk \in BOOLEAN :
        LET w == Wrap(con.mode, con.surface.Width, con.surface.Height, con.data,
                      wrapOk)
        IN IF w = "panic_from_raw"
           THEN con' = [con EXCEPT !.pc = "panic_from_raw"] /\ UNCHANGED <<res, prevGen>>
           ELSE Finish(w, 0, IF w = "Ok" THEN "done" ELSE "wrap",
                       IF w = "Ok" THEN [width |-> con.surface.Width,
                                         height |-> con.surface.Height,
                                         data |-> FrameData(con.mode, con.data)]
                       ELSE NoOut)
    /\ UNCHANGED <<item_size, frame_pool, session, registered, ctor, handles,
                   closeCalls, texture, lock, published, cb, env, dev>>

\* ------------------------------------------------------ Drop and release
\* The first Close() of release(), right after self.active = false.
\* (ReleaseFromPool: the faulty variant that goes straight to the frame pool.)
ReleaseFromPool == "rel_pool"
ReleaseFirstClose == "rel_session"

\* drop(&mut self) calls release(): self.active = false
DropBegin(h) ==
    /\ con.pc = "idle"
    /\ handles[h].st = "live"
    /\ handles' = [handles EXCEPT ![h] = [st |-> "dropping", active |-> FALSE]]
    /\ con' = [IdleCon EXCEPT !.pc = ReleaseFirstClose, !.h = h]
    /\ UNCHANGED <<item_size, frame_pool, session, registered, ctor, closeCalls,
                   texture, lock, published, cb, res, prevGen, mappedTex, env, dev>>

\* The Err of a Close() reaches drop's unwrap(), which panics: the thread
\* starts to unwind, or, when this drop is itself part of an unwinding, the
\* process aborts ("panic in a destructor during cleanup").
DropPanic == IF con.unwinding = "none" THEN "panic_drop" ELSE "abort"

\* The Capture whose drop panicked is gone without its release having
\* finished; its fields are dropped as the panic leaves drop().
Gone(h) == [handles EXCEPT ![h].st = "gone"]

\* Where the thread is once a release has finished: back at the caller, or
\* back in the unwinding that dropped the value. (h = 0: the thread is in no
\* method of a Capture.)
AfterRelease ==
    IF con.unwinding = "none" THEN IdleCon
    ELSE [con EXCEPT !.pc = con.unwinding, !.h = 0, !.unwinding = "none"]

\* release: self.session.Close()?; an Err reaches drop's unwrap(), which panics.
RelSession ==
    /\ con.pc = "rel_session"
    /\ closeCalls' = [closeCalls EXCEPT !.session = @ + 1]
    /\ \E ok \in BOOLEAN :
        IF ok
        THEN /\ session' = "closed"
             /\ con' = [con EXCEPT !.pc = "rel_pool"]
             /\ UNCHANGED handles
        ELSE /\ UNCHANGED session
             /\ con' = [con EXCEPT !.pc = DropPanic, !.h = 0, !.unwinding = "none"]
             /\ handles' = Gone(con.h)
    /\ UNCHANGED <<item_size, frame_pool, registered, ctor, texture, lock,
                   published, cb, res, prevGen, mappedTex, env, dev>>

\* release: self.frame_pool.Close()?; Ok(()); the Capture value is gone.
RelPool ==
    /\ con.pc = "rel_pool"
    /\ closeCalls' = [closeCalls EXCEPT !.frame_pool = @ + 1]
    /\ \E ok \in BOOLEAN :
        IF ok
        THEN /\ frame_pool' = "closed"
             /\ con' = AfterRelease
             /\ handles' = [handles EXCEPT ![con.h].st = "dropped"]
        ELSE /\ UNCHANGED frame_pool
             /\ con' = [con EXCEPT !.pc = DropPanic, !.h = 0, !.unwinding = "none"]
             /\ handles' = Gone(con.h)
    /\ UNCHANGED <<item_size, session, registered, ctor, texture, lock, published,
                   cb, res, prevGen, mappedTex, env, dev>>

\* The unwinding of a panic leaves a frame that owns Capture h: the value is
\* dropped, which runs release() on it like any other drop.
UnwindDrop(h) ==
    /\ con.pc \in PanicPcs
    /\ handles[h].st = "live"
    /\ handles' = [handles EXCEPT ![h] = [st |-> "dropping", active |-> FALSE]]
    /\ con' = [con EXCEPT !.pc = ReleaseFirstClose, !.h = h, !.unwinding = con.pc]
    /\ UNCHANGED <<item_size, frame_pool, session, registered, ctor, closeCalls,
                   texture, lock, published, cb, res, prevGen, mappedTex, env, dev>>

\* The unwinding reaches a catch_unwind: the thread goes on from there with
\* the Capture values the frames it has left did not own.
PanicCaught ==
    /\ con.pc \in PanicPcs
    /\ con' = IdleCon
    /\ UNCHANGED <<item_size, frame_pool, session, registered, ctor, handles,
                   closeCalls, texture, lock, published, cb, res, prevGen,
                   mappedTex, env, dev>>

\* get_img_frame(&self) / get_mat_frame(&self) is called on a Capture.
FrameBegin(h, mode) ==
    /\ con.pc = "idle"
    /\ handles[h].st = "live"
    /\ con' = [IdleCon EXCEPT !.pc = "take", !.h = h, !.mode = mode,
                              !.closedAtStart = Closed, !.pubAtStart = published]
    /\ UNCHANGED <<item_size, frame_pool, session, registered, ctor, handles,
                   closeCalls, texture, lock, published, cb, res, prevGen,
                   mappedTex, env, dev>>

\* wait_img_frame(&self) / wait_mat_frame(&self) is called on a Capture.
WaitBegin(h, mode) ==
    /\ con.pc = "idle"
    /\ handles[h].st = "live"
    /\ con' = [IdleCon EXCEPT !.pc = "take", !.h = h, !.mode = mode,
                              !.closedAtStart = Closed, !.pubAtStart = published]
    /\ UNCHANGED <<item_size, frame_pool, session, registered, ctor, handles,
                   closeCalls, texture, lock, published, cb, res, prevGen,
                   mappedTex, env, dev>>

\* ------------------------------------------------------------------ Spec
Sizes == [Width : 1..MaxWidth, Height : 1..MaxHeight]

\* The targets a session is opened on: the smallest and the largest size.
ItemSizes == {[Width |-> 1, Height |-> 1], [Width |-> MaxWidth, Height |-> MaxHeight]}

Init ==
    /\ item_size \in ItemSizes
    /\ frame_pool = "none"
    /\ session = "none"
    /\ registered = FALSE
    /\ ctor = "pending"
    /\ handles = [h \in Handles |-> [st |-> "none", active |-> FALSE]]
    /\ closeCalls = [session |-> 0, frame_pool |-> 0]
    /\ texture = None
    /\ lock = "free"
    /\ published = 0
    /\ cb = IdleCb
    /\ con = IdleCon
    /\ res = NoRes
    /\ prevGen = 0
    /\ mappedTex = {}
    /\ env = Env(1, <<>>, 0)
    /\ dev = NoDev

Next ==
    \/ New
    \/ \E h, h2 \in Handles : Clone(h, h2)
    \/ CbStart
    \/ CbCreate
    \/ CbCopy
    \/ CbLock
    \/ CbStore
    \/ \E h \in Handles : PullBegin(h)
    \/ TakeActive
    \/ TakeLock1
    \/ TakeIsNone
    \/ TakeLock2
    \/ TakeRead
    \/ S2dValidate
    \/ S2dMap
    \/ S2dCopy
    \/ S2dUnmap
    \/ \E h \in Handles : DropBegin(h)
    \/ RelSession
    \/ RelPool
    \/ \E h \in Handles : UnwindDrop(h)
    \/ PanicCaught

Spec == Init /\ [][Next]_vars

\* ----------------------------------------------------------- SpecExtract
\* surface_to_data(&self, surface) on a surface of any description: the
\* session is as Capture::new left it, and the consumer is at the call.
Surfaces ==
    [some : {TRUE}, gen : 1..MaxGen, Width : 1..MaxWidth, Height : 1..MaxHeight,
     Format : Formats, Usage : Usages, CPUAccessFlags : CpuAccessFlags,
     copied : {TRUE}]

InitExtract ==
    /\ item_size \in Sizes
    /\ frame_pool = "open"
    /\ session = "started"
    /\ registered = TRUE
    /\ ctor = "Ok"
    /\ handles = [h \in Handles |-> IF h = 1 THEN [st |-> "live", active |-> TRUE]
                                    ELSE [st |-> "none", active |-> FALSE]]
    /\ closeCalls = [session |-> 0, frame_pool |-> 0]
    /\ texture = None
    /\ lock = "free"
    /\ published = 0
    /\ cb = IdleCb
    /\ \E d \in Surfaces :
        /\ d.Width = item_size.Width
        /\ d.Height = item_size.Height
        /\ con = [IdleCon EXCEPT !.pc = "s2d", !.h = 1, !.surface = d]
    /\ res = NoRes
    /\ prevGen = 0
    /\ mappedTex = {}
    /\ env = Env(1, <<>>, 0)
    /\ dev = NoDev

NextExtract ==
    \/ S2dValidate
    \/ S2dMap
    \/ S2dCopy
    \/ S2dUnmap

SpecExtract == InitExtract /\ [][NextExtract]_vars

\* --------------------------------------------------- SpecExtractAnyPitch
\* surface_to_data when Map() may report any RowPitch, and what follows the
\* panic of its row copy.
NextExtractAnyPitch ==
    \/ S2dValidate
    \/ S2dMapAnyPitch
    \/ S2dCopy
    \/ S2dUnmap
    \/ \E h \in Handles : UnwindDrop(h)
    \/ RelSession
    \/ RelPool
    \/ PanicCaught

SpecExtractAnyPitch == InitExtract /\ [][NextExtractAnyPitch]_vars

\* -------------------------------------------------------------- SpecWait
\* The wait loops and the direct get_img_frame / get_mat_frame calls on the
\* session Capture::new returned, with the arrival callback running beside
\* them and with the handles being cloned and dropped.
InitWait ==
    /\ item_size \in ItemSizes
    /\ frame_pool = "open"
    /\ session = "started"
    /\ registered = TRUE
    /\ ctor = "Ok"
    /\ handles = [h \in Handles |-> IF h = 1 THEN [st |-> "live", active |-> TRUE]
                                    ELSE [st |-> "none", active |-> FALSE]]
    /\ closeCalls = [session |-> 0, frame_pool |-> 0]
    /\ texture = None
    /\ lock = "free"
    /\ published = 0
    /\ cb = IdleCb
    /\ con = IdleCon
    /\ res = NoRes
    /\ prevGen = 0
    /\ mappedTex = {}
    /\ env = Env(1, <<>>, 0)
    /\ dev = NoDev

NextWait ==
    \/ CbStart
    \/ CbCreate
    \/ CbCopy
    \/ CbLock
    \/ CbStore
    \/ \E h \in Handles, mode \in WaitModes : WaitBegin(h, mode)
    \/ \E h \in Handles, mode \in {"img", "mat"} : FrameBegin(h, mode)
    \/ \E h, h2 \in Handles : Clone(h, h2)
    \/ \E h \in Handles : DropBegin(h)
    \/ RelSession
    \/ RelPool
    \/ \E h \in Handles : UnwindDrop(h)
    \/ PanicCaught
    \/ TakeActive
    \/ TakeLock1
    \/ TakeIsNone
    \/ TakeLock2
    \/ TakeRead
    \/ S2dValidate
    \/ S2dMap
    \/ S2dCopy
    \/ S2dUnmap

SpecWait == InitWait /\ [][NextWait]_vars

\* ---------------------------------------------------------- SpecPullFair
\* Pulls on the session Capture::new returned, beside the arrival callback,
\* under fair scheduling: a thread that can take a step other than a lock()
\* eventually takes it, and a thread waiting in lock() gets the mutex if it
\* is free again and again. Whether a callback or a pull starts is up to the
\* frame pool and the caller.
CbRun == CbCreate \/ CbCopy \/ CbStore
PullRun == TakeActive \/ TakeIsNone \/ TakeRead \/ S2dValidate \/ S2dMap
              \/ S2dCopy \/ S2dUnmap

NextPull ==
    \/ CbStart
    \/ CbCreate
    \/ CbCopy
    \/ CbLock
    \/ CbStore
    \/ \E h \in Handles : PullBegin(h)
    \/ TakeActive
    \/ TakeLock1
    \/ TakeIsNone
    \/ TakeLock2
    \/ TakeRead
    \/ S2dValidate
    \/ S2dMap
    \/ S2dCopy
    \/ S2dUnmap

SpecPullFair ==
    /\ InitWait
    /\ [][NextPull]_vars
    /\ WF_vars(CbRun)
    /\ WF_vars(PullRun)
    /\ SF_vars(CbLock)
    /\ SF_vars(TakeLock1)
    /\ SF_vars(TakeLock2)

\* The consumer only runs the wait loops.
NextWaitLoops ==
    \/ CbStart
    \/ CbCreate
    \/ CbCopy
    \/ CbLock
    \/ CbStore
    \/ \E h \in Handles, mode \in WaitModes : WaitBegin(h, mode)
    \/ TakeActive
    \/ TakeLock1
    \/ TakeIsNone
    \/ TakeLock2
    \/ TakeRead
    \/ S2dValidate
    \/ S2dMap
    \/ S2dCopy
    \/ S2dUnmap

\* The wait loops under fair scheduling: a callback that holds the mutex
\* eventually finishes its store, the steps of a running wait are eventually
\* taken, and a wait blocked in lock() gets the mutex if it is free again and
\* again. Nothing is assumed about the callback's progress before its lock().
SpecWaitFair ==
    /\ InitWait
    /\ [][NextWaitLoops]_vars
    /\ WF_vars(CbStore)
    /\ WF_vars(PullRun)
    /\ SF_vars(TakeLock1 \/ TakeLock2)

\* ------------------------------------------------------------ SpecDevice
\* Window titles and captions are strings over a small alphabet with both cases.
Lower(c) == IF c = "A" THEN "a" ELSE IF c = "B" THEN "b" ELSE c

\* str::to_lowercase
\* (keep_case: the faulty variant that compares the strings as they are.)
keep_case(str) == str
to_lowercase(str) == [i \in 1..Len(str) |-> Lower(str[i])]

\* str::contains(&str)
contains(str, pat) ==
    \E i \in 0..(Len(str) - Len(pat)) : SubSeq(str, i + 1, i + Len(pat)) = pat

Titles == {<<"A">>, <<"a", "B">>, <<"b">>}
Captions == {<<>>, <<"a">>, <<"B">>, <<"A", "b">>, <<"b", "a">>}

\* The Vec get_capturable_windows() returned to this call: the capturable
\* windows in the order EnumWindows reported them, the handle being the
\* position in that enumeration.
get_capturable_windows ==
    [i \in 1..Len(dev.windows) |-> [handle |-> i, title |-> dev.windows[i]]]

\* find_window(window_name), once get_capturable_windows() has returned.
find_window(window_name) ==
    LET match(window_info) ==
            contains(to_lowercase(window_info.title), to_lowercase(window_name))
    IN SelectSeq(get_capturable_windows, match)

DevOut(call, display_id, caption, st, msg, index) ==
    [NoDev EXCEPT !.call = call, !.display_id = display_id, !.caption = caption,
                  !.st = st, !.msg = msg, !.index = index]

\* Device::new(item): new_of_type().unwrap(), to_direct3d_device(..).unwrap()
Device_new(call, display_id, caption, index, fail) ==
    IF fail = "new_of_type"
    THEN DevOut(call, display_id, caption, "Panic", "new_of_type", index)
    ELSE IF fail = "to_direct3d_device"
    THEN DevOut(call, display_id, caption, "Panic", "to_direct3d_device", index)
    ELSE DevOut(call, display_id, caption, "Ok", "", index)

\* factory::<GraphicsCaptureItem, IGraphicsCaptureItemInterop>()?,
\* interop.CreateFor...(handle)?, Ok(Self::new(item))
ItemThenDevice(call, display_id, caption, index, fail) ==
    IF fail = "factory"
    THEN DevOut(call, display_id, caption, "Err", "factory", index)
    ELSE IF fail = "item"
    THEN DevOut(call, display_id, caption, "Err", "CreateFor", index)
    ELSE Device_new(call, display_id, caption, index, fail)

\* Device::new_from_displays(display_id): -1 stands for None; index is the
\* position in enumerate_displays() of the monitor used, -1 the primary one.
\* enumerate_displays() runs enum_monitor for every monitor: a failing
\* GetMonitorInfoW panics inside that extern "system" callback, which cannot
\* unwind, so the process aborts; a failing EnumDisplayMonitors panics in the
\* caller.
new_from_displays(display_id, fail) ==
    IF display_id # -1
    THEN IF fail = "monitor_info" /\ env.nDisplays >= 1
         THEN DevOut("displays", display_id, <<>>, "Abort",
                     "GetMonitorInfoW failed!", -1)
         ELSE IF fail = "enum"
         THEN DevOut("displays", display_id, <<>>, "Panic",
                     "EnumDisplayMonitors failed!", -1)
         ELSE IF display_id <= 0 \/ env.nDisplays <= display_id - 1
         THEN DevOut("displays", display_id, <<>>, "Err",
                     "DisplayId is out of range", -1)
         ELSE IF display_id >= env.nDisplays
         THEN DevOut("displays", display_id, <<>>, "Panic",
                     "index out of bounds", -1)
         ELSE ItemThenDevice("displays", display_id, <<>>, display_id, fail)
    ELSE ItemThenDevice("displays", display_id, <<>>, -1, fail)

\* impl Default for Device:
\* Self::new_from_displays(None).expect("Not found primary monitor")
Device_default(fail) ==
    LET r == new_from_displays(-1, fail)
    IN IF r.st = "Err"
       THEN [r EXCEPT !.call = "default", !.st = "Panic",
                      !.msg = "Not found primary monitor"]
       ELSE [r EXCEPT !.call = "default"]

\* Device::new_from_window(window_caption) from find_window's return on;
\* index is the handle of the window used.
new_from_window(window_caption, fail) ==
    LET windows == find_window(window_caption) IN
    IF Len(windows) = 0
    THEN DevOut("window", -1, window_caption, "Err", "Window is not found", -1)
    ELSE ItemThenDevice("window", -1, window_caption, windows[1].handle, fail)

\* The fallible backend calls of the device constructors.
Fails == {"none", "enum", "monitor_info", "factory", "item", "new_of_type",
          "to_direct3d_device"}

\* The thread makes a call when it is in no call and has not panicked; an
\* abort ends the process.
CanCall == dev.pc = "idle" /\ dev.st \notin {"Panic", "Abort"}

CallDeviceNew ==
    /\ CanCall
    /\ \E fail \in {"none", "new_of_type", "to_direct3d_device"} :
        dev' = Device_new("new", -1, <<>>, -1, fail)
    /\ UNCHANGED <<captureVars, env>>

CallDeviceDefault ==
    /\ CanCall
    /\ \E fail \in Fails : dev' = Device_default(fail)
    /\ UNCHANGED <<captureVars, env>>

CallNewFromDisplays ==
    /\ CanCall
    /\ \E display_id \in -1..(MaxDisplays + 1), fail \in Fails :
        dev' = new_from_displays(display_id, fail)
    /\ UNCHANGED <<captureVars, env>>

\* Device::new_from_window(window_caption) is called: find_window calls
\* get_capturable_windows, which begins with GetConsoleTitleW.
CallNewFromWindow ==
    /\ CanCall
    /\ \E window_caption \in Captions :
        dev' = [NoDev EXCEPT !.call = "window", !.caption = window_caption,
                             !.pc = "get_title"]
    /\ UNCHANGED <<captureVars, env>>

\* get_capturable_windows: current_console_title = GetConsoleTitleW(..)
WinGetTitle ==
    /\ dev.pc = "get_title"
    /\ dev' = [dev EXCEPT !.pc = "set_title", !.saved = env.console_title]
    /\ UNCHANGED <<captureVars, env>>

\* uuid::Uuid::new_v4().to_string(): lower-case hexadecimal digits and
\* hyphens, drawn at random. Which captions of such characters the string
\* contains is up to chance: there is one GUID here for every set of the
\* captions "a", "b", "ab" and "ba" that a string can contain ("0" stands for
\* the digits and hyphens).
Guids ==
    {<<"0">>, <<"a">>, <<"b">>, <<"a", "0", "b">>, <<"a", "b">>, <<"b", "a">>,
     <<"a", "b", "a">>}

\* SetConsoleTitleW(title): the console has the new title, and so has the
\* console's window when it is among the capturable windows.
SetConsoleTitleW(e, title) ==
    [e EXCEPT !.console_title = title,
              !.windows = IF e.console = 0 THEN @
                          ELSE [@ EXCEPT ![e.console] = title]]

\* get_capturable_windows: SetConsoleTitleW(a fresh GUID)
WinSetTitle ==
    /\ dev.pc = "set_title"
    /\ \E guid \in Guids : env' = SetConsoleTitleW(env, guid)
    /\ dev' = [dev EXCEPT !.pc = "sleep"]
    /\ UNCHANGED captureVars

\* get_capturable_windows: std::thread::sleep(40 ms)
WinSleep ==
    /\ dev.pc = "sleep"
    /\ dev' = [dev EXCEPT !.pc = "enum"]
    /\ UNCHANGED <<captureVars, env>>

\* get_capturable_windows: EnumWindows(enum_window, &mut window_list) reports
\* the windows there are now; if it fails the call panics with the console
\* title still changed.
WinEnum ==
    /\ dev.pc = "enum"
    /\ \E ok \in BOOLEAN :
        dev' = IF ok THEN [dev EXCEPT !.pc = "restore", !.windows = env.windows]
               ELSE DevOut("window", -1, dev.caption, "Panic",
                           "EnumWindows failed!", -1)
    /\ UNCHANGED <<captureVars, env>>

\* get_capturable_windows: SetConsoleTitleW(current_console_title); window_list
WinRestore ==
    /\ dev.pc = "restore"
    /\ env' = SetConsoleTitleW(env, dev.saved)
    /\ dev' = [dev EXCEPT !.pc = "find", !.saved = <<>>]
    /\ UNCHANGED captureVars

\* find_window filters the list; new_from_window takes windows[0] or bails,
\* then creates the item and the device.
WinFind ==
    /\ dev.pc = "find"
    /\ \E fail \in Fails \ {"enum", "monitor_info"} :
        dev' = [new_from_window(dev.caption, fail) EXCEPT !.windows = dev.windows]
    /\ UNCHANGED <<captureVars, env>>

\* Another thread of the process calls get_capturable_windows (through
\* find_window or new_from_window): it reads the console title, ...
OtherGetTitle ==
    /\ dev.st # "Abort"
    /\ env.other.pc = "idle"
    /\ env' = [env EXCEPT !.other = [pc |-> "set_title", saved |-> env.console_title]]
    /\ UNCHANGED <<captureVars, dev>>

\* ... sets it to its own fresh GUID, ...
OtherSetTitle ==
    /\ dev.st # "Abort"
    /\ env.other.pc = "set_title"
    /\ \E guid \in Guids :
        env' = [SetConsoleTitleW(env, guid) EXCEPT !.other.pc = "restore"]
    /\ UNCHANGED <<captureVars, dev>>

\* ... and after its sleep and enumeration writes back the title it read.
OtherRestore ==
    /\ dev.st # "Abort"
    /\ env.other.pc = "restore"
    /\ env' = [SetConsoleTitleW(env, env.other.saved) EXCEPT !.other = NoOther]
    /\ UNCHANGED <<captureVars, dev>>

\* The capturable windows there can be while the console is titled title:
\* the console's window, if it is among them, bears that title.
WindowLists(title) ==
    {wc \in [windows : UNION {[1..n -> Titles \cup {title}] : n \in 0..MaxWindows},
             console : 0..MaxWindows] :
        /\ wc.console <= Len(wc.windows)
        /\ \A i \in 1..Len(wc.windows) :
               IF i = wc.console THEN wc.windows[i] = title
               ELSE wc.windows[i] \in Titles}

\* Windows open, close, are renamed and change places while the process
\* runs; the console's window stays what it is. The changes are followed
\* from the start of a call of get_capturable_windows until EnumWindows has
\* reported the windows to it: a change between two calls is a change at the
\* start of the next one, and a change after the enumeration does not reach
\* the list the call works on (a window gone by then makes CreateForWindow
\* fail).
WindowsChange ==
    /\ dev.pc \in {"get_title", "set_title", "sleep", "enum"}
    /\ \E wc \in WindowLists(env.console_title) :
        /\ (wc.console = 0) <=> (env.console = 0)
        /\ <<wc.windows, wc.console>> # <<env.windows, env.console>>
        /\ env' = [env EXCEPT !.windows = wc.windows, !.console = wc.console]
    /\ UNCHANGED <<captureVars, dev>>

InitDevice ==
    /\ item_size = [Width |-> 1, Height |-> 1]
    /\ frame_pool = "none"
    /\ session = "none"
    /\ registered = FALSE
    /\ ctor = "pending"
    /\ handles = [h \in Handles |-> [st |-> "none", active |-> FALSE]]
    /\ closeCalls = [session |-> 0, frame_pool |-> 0]
    /\ texture = None
    /\ lock = "free"
    /\ published = 0
    /\ cb = IdleCb
    /\ con = IdleCon
    /\ res = NoRes
    /\ prevGen = 0
    /\ mappedTex = {}
    /\ \E n \in 0..MaxDisplays, wc \in WindowLists(ConsoleTitle) :
        env = Env(n, wc.windows, wc.console)
    /\ dev = NoDev

NextDevice ==
    \/ CallDeviceNew
    \/ CallDeviceDefault
    \/ CallNewFromDisplays
    \/ CallNewFromWindow
    \/ WinGetTitle
    \/ WinSetTitle
    \/ WinSleep
    \/ WinEnum
    \/ WinRestore
    \/ WinFind
    \/ WindowsChange

SpecDevice == InitDevice /\ [][NextDevice]_vars

\* ------------------------------------------------------------ SpecWindow
\* new_from_window while another thread of the process enumerates windows
\* too: both change and restore the one console title.
InitWindow == InitDevice /\ env.nDisplays = 1

NextWindow ==
    \/ CallNewFromWindow
    \/ WinGetTitle
    \/ WinSetTitle
    \/ WinSleep
    \/ WinEnum
    \/ WinRestore
    \/ WinFind
    \/ OtherGetTitle
    \/ OtherSetTitle
    \/ OtherRestore
    \/ WindowsChange

SpecWindow == InitWindow /\ [][NextWindow]_vars

\* ================================================================ claims
\* The pcs of a pull that has passed take's is_none check.
PastNoneCheck ==
    {"lock2", "read", "s2d", "validated", "mapped", "copied", "panic_unwrap",
     "panic_copy"}

\* C1 (as claimed): a pull that starts after the session and the frame pool
\* have been closed returns NotActive, on whichever handle it is made.
C1_PostCloseNotActive ==
    (res.kind # "none" /\ res.closedAtStart) => res.kind = "NotActive"

\* C2 (as claimed): between operations of the consumer, every handle's active
\* flag is true exactly when the session and the frame pool are not closed.
C2_ActiveIffNotClosed ==
    con.pc = "idle" =>
        \A h \in Handles :
            handles[h].st = "live" =>
                (handles[h].active <=> (session # "closed" /\ frame_pool # "closed"))

\* C3 (as claimed): however often close runs on a session, the underlying
\* session and frame pool are each released (Close()d) at most once, and no
\* run of it fails.
C3_CloseIdempotent ==
    /\ closeCalls.session <= 1
    /\ closeCalls.frame_pool <= 1

\* C4: a pull observes no frame or a frame whose copy was issued before it was
\* published, and the generation a pull observes is never below the one the
\* pull before it observed.
C4_NoTornFrameMonotonicGen ==
    /\ texture.some => texture.copied
    /\ con.surface.some => con.surface.copied
    /\ res.surface.some => (res.surface.copied /\ res.surface.gen >= prevGen)

C4_Witness ==
    /\ res.surface.some
    /\ prevGen >= 1
    /\ res.surface.gen > prevGen

\* C5: while no arrival callback has written the slot, a pull on an active
\* handle never gets past the is_none check, and what it returns is NoTexture
\* with no frame data.
C5_NoTextureBeforeFirstFrame ==
    published = 0 =>
        /\ con.pc \notin PastNoneCheck
        /\ (res.kind # "none" /\ res.active) =>
               (res.kind = "NoTexture" /\ res.data = <<>> /\ ~res.surface.some)

C5_Witness ==
    /\ published = 0
    /\ res.kind = "NoTexture"
    /\ res.active
    /\ cb.pc = "copied"

\* C6 (as claimed): a pull on an active handle that starts after a callback
\* has published a frame returns Ok, with the staging texture's width and
\* height and width * height * 4 bytes of data.
C6_OkAfterFirstFrame ==
    (res.kind # "none" /\ res.active /\ res.pubAtStart >= 1) =>
        /\ res.kind = "Ok"
        /\ res.width = res.surface.Width
        /\ res.height = res.surface.Height
        /\ Len(res.data) = res.width * res.height * 4

\* C6 (amended): such a pull returns Ok or DirectxError (a backend call of
\* take or surface_to_data failed) and does not panic; when it returns Ok the
\* frame has the staging texture's width and height and width * height * 4
\* bytes of data.
C6_OkOrBackendError ==
    /\ (con.pc # "idle" /\ con.pubAtStart >= 1) =>
           con.pc \notin {"panic_unwrap", "panic_copy", "panic_poison"}
    /\ (res.kind # "none" /\ res.active /\ res.pubAtStart >= 1) =>
           /\ res.kind \in {"Ok", "DirectxError"}
           /\ res.kind = "Ok" =>
                  /\ res.surface.some
                  /\ res.width = res.surface.Width
                  /\ res.height = res.surface.Height
                  /\ Len(res.data) = res.width * res.height * 4

C6_Witness ==
    /\ res.kind = "Ok"
    /\ res.active
    /\ res.pubAtStart >= 1
    /\ res.width * res.height > 1

\* C7: when the row pitch is at least width * 4, the bytes
\* [r*width*4, (r+1)*width*4) of the output are the first width * 4 bytes of
\* mapped row r, for every row r, and no padding byte is in the output.
RowsPacked(data, pData, width, height, pitch) ==
    /\ Len(data) = width * height * 4
    /\ \A r \in 0..(height - 1) : \A i \in 1..(width * 4) :
           data[r * width * 4 + i] = pData[r * pitch + i]
    /\ \A i \in 1..Len(data) : data[i] # PadByte

C7_RowPitch ==
    /\ (con.pc = "copied" /\ con.mapped.RowPitch >= con.surface.Width * 4) =>
           RowsPacked(con.data, con.mapped.pData, con.surface.Width,
                      con.surface.Height, con.mapped.RowPitch)
    /\ (res.kind = "Ok" /\ res.RowPitch >= res.surface.Width * 4) =>
           RowsPacked(res.data, MappedBytes(res.surface, res.RowPitch),
                      res.surface.Width, res.surface.Height, res.RowPitch)

C7_Witness ==
    /\ res.kind = "Ok"
    /\ res.RowPitch > res.surface.Width * 4
    /\ res.surface.Height >= 2

\* C8: once the surface has been resolved to its texture, a non-BGRA8 format
\* gives UnsupportedPixelFormat(format) whatever the usage and the access
\* flags; else a non-staging usage gives UnsupportedBufferType whatever the
\* access flags; else missing CPU read access gives DeniedAccessCpuRead; and
\* the texture is mapped only when all three checks pass.
ReadFlags == {D3D11_CPU_ACCESS_READ, D3D11_CPU_ACCESS_READ + 65536}

C8_ValidationOrder ==
    /\ (res.kind # "none" /\ res.stage # "cast") =>
           IF res.surface.Format # DXGI_FORMAT_B8G8R8A8_UNORM
           THEN res.kind = "UnsupportedPixelFormat" /\ res.code = res.surface.Format
           ELSE IF res.surface.Usage # D3D11_USAGE_STAGING
           THEN res.kind = "UnsupportedBufferType"
           ELSE IF res.surface.CPUAccessFlags \notin ReadFlags
           THEN res.kind = "DeniedAccessCpuRead"
           ELSE res.kind \in {"Ok", "DirectxError"} /\ res.stage \in {"map", "done"}
    /\ (con.pc \in {"validated", "mapped", "copied"} \/ mappedTex # {}) =>
           /\ con.surface.Format = DXGI_FORMAT_B8G8R8A8_UNORM
           /\ con.surface.Usage = D3D11_USAGE_STAGING
           /\ con.surface.CPUAccessFlags \in ReadFlags

C8_Witness ==
    /\ res.kind = "UnsupportedPixelFormat"
    /\ res.surface.Usage # D3D11_USAGE_STAGING
    /\ res.surface.CPUAccessFlags \notin ReadFlags

\* C9: Capture::new either returns a Capture with active == true whose session
\* has been started, or fails and returns none; after a failure the session
\* is not started and no arrival callback can run or has written the slot.
C9_NewAllOrNothing ==
    /\ ctor = "Err" =>
           /\ \A h \in Handles : handles[h].st = "none"
           /\ session # "started"
           /\ ~CanDeliver
           /\ cb = IdleCb
           /\ ~texture.some
    /\ ctor = "Ok" =>
           /\ handles[1].st # "none"
           /\ session \in {"started", "closed"}
           /\ registered
           /\ \A h \in Handles : handles[h].st = "live" => handles[h].active

C9_Witness ==
    /\ ctor = "Err"
    /\ registered
    /\ frame_pool = "open"
    /\ session = "created"

\* C10 (as claimed): when the hardware device cannot be created, or cannot be
\* converted to the abstract device, the creation call returns an error.
C10_DeviceFailureIsError ==
    dev.msg \in {"new_of_type", "to_direct3d_device"} => dev.st = "Err"

\* C11 (as claimed): with len displays enumerated, new_from_displays(Some(id))
\* for an id in 1..len does not fail on the index and, when the device is
\* created, uses the id-th display, the element at index id - 1.
C11_DisplayIdSelectsIdth ==
    (dev.call = "displays" /\ dev.display_id \in 1..env.nDisplays
        /\ dev.msg # "EnumDisplayMonitors failed!") =>
        /\ dev.msg # "index out of bounds"
        /\ dev.msg # "DisplayId is out of range"
        /\ dev.st = "Ok" => dev.index = dev.display_id - 1

\* C12 (as claimed): wait_img_frame and wait_mat_frame never return NoTexture:
\* only a wait loop re-issues a pull, what a wait returns is Ok or an error
\* other than NoTexture, and a wait on a session that is closed returns
\* NotActive at once: it does not get past take's active check, does not go
\* round the loop and returns nothing else.
C12_WaitNeverNoTexture ==
    /\ res.mode \in WaitModes => res.kind \in {"Ok", "DirectxError", "OpencvError",
                                                "NotActive"}
    /\ con.retried => con.mode \in WaitModes
    /\ res.retried => res.mode \in WaitModes
    /\ (con.mode \in WaitModes /\ con.closedAtStart /\ con.pc \in PullPcs) =>
           (con.pc = "take" /\ ~con.retried)
    /\ (res.mode \in WaitModes /\ res.closedAtStart) =>
           (res.kind = "NotActive" /\ ~res.retried)

\* C13: the slot is a latest-wins single slot: it is empty exactly while no
\* callback has completed, and otherwise holds the one staging texture stored
\* by the most recently completed callback (the generation last published),
\* whatever it held before.
C13_LatestWinsSingleSlot ==
    /\ texture.some <=> published >= 1
    /\ texture.some => texture.gen = published /\ texture.copied
    /\ ~texture.some => texture = None

C13_Witness ==
    /\ published = MaxGen
    /\ texture.gen = MaxGen
    /\ cb.result = "Ok"

\* C14: a step in which the arrival callback fails (TryGetNextFrame, Surface
\* or the cast in the first step, CreateTexture2D in the second) returns Err to
\* the frame pool and changes nothing else: the slot, the count of published
\* frames, the mutex, the session, the frame pool, the registration and the
\* handles are as before, so a later callback can publish and pulls go on.
CbFailStep == cb' = CbFail /\ cb' # cb

C14_FailedCallbackKeepsSlot ==
    [][CbFailStep =>
        /\ cb.pc \in {"idle", "frame"}
        /\ texture' = texture
        /\ published' = published
        /\ lock' = lock
        /\ session' = session
        /\ frame_pool' = frame_pool
        /\ registered' = registered
        /\ handles' = handles
        /\ con' = con]_vars

\* After a frame was published a callback failed, the slot still holds that
\* frame, and a later callback is about to publish the next one.
C14_Witness ==
    /\ cb.result = "Err"
    /\ cb.pc = "locked"
    /\ texture.some
    /\ texture.gen = 1
    /\ published = 1

\* C15 (as claimed): once the session and the frame pool are closed no step
\* changes the slot, whatever callback was running when the close began.
C15_NoSlotWriteAfterClose ==
    [][Closed => texture' = texture]_vars

\* C16 (as claimed): whenever control is outside the stretch of
\* surface_to_data between Map and Unmap no texture is mapped, and the row
\* copy never ends in a panic: a failure after Map is returned as an error.
C16_MapAlwaysUnmapped ==
    /\ con.pc \notin {"mapped", "copied"} => mappedTex = {}
    /\ con.pc # "panic_copy"

\* C17: a pull does not consume the frame: no step of the consumer changes
\* the slot, and a pull that returns Ok while no callback has published since
\* the texture the previous pull extracted returns that same generation.
C17_PullKeepsSlot ==
    /\ [][con' # con => texture' = texture]_vars
    /\ [](res.kind = "Ok" /\ prevGen >= 1 /\ published = prevGen
            => res.surface.gen = prevGen /\ texture.gen = prevGen)

C17_Witness ==
    /\ res.kind = "Ok"
    /\ prevGen >= 1
    /\ published = prevGen
    /\ res.surface.gen = prevGen
    /\ texture.some

\* C18: the slot mutex is held only around the slot write and the slot reads:
\* the callback holds it only at the store, not while it gets the frame,
\* creates the staging texture or issues the copy, and the consumer holds it
\* only at the is_none check and at the read, not in surface_to_data (cast,
\* validation, Map, row copy, Unmap) nor once the pull has returned.
C18_LockOnlyAroundSlotAccess ==
    /\ lock = "callback" => cb.pc = "locked"
    /\ lock = "consumer" => con.pc \in {"isnone", "read"}
    /\ cb.pc \in {"idle", "frame", "texture", "copied"} => lock # "callback"
    /\ con.pc \in {"idle", "s2d", "validated", "mapped", "copied"} => lock # "consumer"

\* The callback holds the mutex while the consumer is between Map and Unmap.
C18_Witness ==
    /\ con.pc = "mapped"
    /\ cb.pc = "locked"
    /\ lock = "callback"

\* C19: no deadlock on the slot mutex: no thread reaches a lock() while it
\* holds the mutex (take's two acquisitions are one after the other), every
\* holder releases it, and under fair scheduling every arrival callback and
\* every pull that has started finishes.
C19_NoDeadlock ==
    /\ [](con.pc \in {"lock1", "lock2"} => lock # "consumer")
    /\ [](cb.pc = "copied" => lock # "callback")
    /\ (lock = "consumer") ~> (lock # "consumer")
    /\ (lock = "callback") ~> (lock # "callback")
    /\ (cb.pc # "idle") ~> (cb.pc = "idle")
    /\ (con.pc # "idle") ~> (con.pc = "idle")

\* The consumer waits in take's second lock() while the callback holds the
\* mutex for its store.
C19_Witness ==
    /\ con.pc = "lock2"
    /\ cb.pc = "locked"
    /\ lock = "callback"

\* C20: release() runs in the order active = false, session.Close(),
\* frame_pool.Close(): a Close() is only called by a handle whose active flag
\* is already false, session.Close() is called before this release's
\* frame_pool.Close(), frame_pool.Close() only after session.Close()
\* succeeded, and once a release has finished both the session and the frame
\* pool are closed.
C20_CloseOrder ==
    /\ [][closeCalls'.session # closeCalls.session =>
            /\ ~handles[con.h].active
            /\ handles[con.h].st = "dropping"
            /\ con.pc = "rel_session"
            /\ closeCalls'.frame_pool = closeCalls.frame_pool]_vars
    /\ [][closeCalls'.frame_pool # closeCalls.frame_pool =>
            /\ ~handles[con.h].active
            /\ handles[con.h].st = "dropping"
            /\ con.pc = "rel_pool"
            /\ session = "closed"]_vars
    /\ [][(con'.pc = "rel_pool" /\ con.pc # "rel_pool") =>
            /\ con.pc = "rel_session"
            /\ con'.h = con.h
            /\ closeCalls'.session = closeCalls.session + 1
            /\ session' = "closed"]_vars
    /\ [](\A h \in Handles : handles[h].st = "dropped" =>
            session = "closed" /\ frame_pool = "closed" /\ ~handles[h].active)

C20_Witness ==
    /\ \E h \in Handles : handles[h].st = "dropped"
    /\ closeCalls.session = 1
    /\ closeCalls.frame_pool = 1
    /\ con.pc = "idle"

\* C21 (as claimed): a session goes from active to closed once: Closed is
\* never left, and across all handles and their destruction no Close() is
\* made on a session or a frame pool that is already closed.
C21_ClosedExactlyOnce ==
    /\ [][session = "closed" => session' = "closed"]_vars
    /\ [][frame_pool = "closed" => frame_pool' = "closed"]_vars
    /\ [][closeCalls'.session # closeCalls.session => session # "closed"]_vars
    /\ [][closeCalls'.frame_pool # closeCalls.frame_pool =>
            frame_pool # "closed"]_vars

\* C22: take's check-then-use is safe: the slot never goes from holding a
\* texture back to empty and its generation never decreases, so the read
\* after take's second lock() finds a texture of a generation at least the
\* one the is_none check saw, and its unwrap() never panics.
C22_CheckThenUseSafe ==
    /\ [][texture.some => texture'.some /\ texture'.gen >= texture.gen]_vars
    /\ [](con.pc \in {"lock2", "read"} =>
            texture.some /\ texture.gen >= con.seenGen /\ con.seenGen >= 1)
    /\ [](con.pc \in {"s2d", "validated", "mapped", "copied"} =>
            con.surface.some /\ con.surface.gen >= con.seenGen)
    /\ [](con.pc # "panic_unwrap" /\ lock # "poisoned")

\* A callback replaced the slot between the is_none check and the read.
C22_Witness ==
    /\ con.pc = "read"
    /\ con.seenGen = 1
    /\ texture.gen = 2

\* C23: a pull extracts one single frame: the surface take returned stays the
\* same through surface_to_data whatever the callback stores meanwhile, the
\* mapped memory is that of the texture the pull holds, and every byte of the
\* copied and of the returned data is the byte of that texture's generation.
FrameOf(data, t) ==
    /\ Len(data) = t.Width * t.Height * 4
    /\ \A r \in 0..(t.Height - 1) : \A c \in 0..(t.Width * 4 - 1) :
           data[r * t.Width * 4 + c + 1] = TexByte(t.gen, r, c)

InSurfaceToData == {"s2d", "validated", "mapped", "copied"}

C23_PullExtractsOneFrame ==
    /\ [][(con.pc \in InSurfaceToData /\ con'.pc \in InSurfaceToData) =>
            con'.surface = con.surface]_vars
    /\ [](con.pc \in {"mapped", "copied"} =>
            /\ con.mapped.pData = MappedBytes(con.surface, con.mapped.RowPitch)
            /\ mappedTex = {con.surface.gen})
    /\ [](con.pc = "copied" => FrameOf(con.data, con.surface))
    /\ [](res.kind = "Ok" => res.surface.copied /\ FrameOf(res.data, res.surface))

\* The callback replaced the slot after take read it, and the pull has mapped
\* and copied the texture it holds.
C23_Witness ==
    /\ con.pc = "copied"
    /\ con.surface.gen = 1
    /\ texture.gen = 2
    /\ FrameOf(con.data, con.surface)
    /\ con.surface.Height >= 2

\* C24: on an active session, once a callback has completed successfully a
\* running wait_img_frame / wait_mat_frame eventually returns under fair
\* scheduling; and a wait returns only through a pull that yields something
\* other than NoTexture, so none returns while no frame has been published.
C24_WaitEventuallyReturns ==
    /\ (con.pc # "idle" /\ published >= 1) ~> (con.pc = "idle")
    /\ [][(con.mode \in WaitModes /\ con.pc # "idle" /\ con'.pc = "idle") =>
            (published >= 1 /\ res'.kind \notin {"none", "NoTexture"})]_vars

\* A wait that went round on NoTexture has returned after a frame arrived.
C24_Witness ==
    /\ res.mode = "wait_mat"
    /\ res.retried
    /\ res.kind # "none"
    /\ published >= 1
    /\ con.pc = "idle"

\* C25: given the enumerated displays, new_from_displays(Some(id)) returns the
\* error "DisplayId is out of range", and does not panic, for id = 0 and for
\* every id above their number; given the capturable windows as
\* get_capturable_windows returned them to the call (the console's own window
\* under the title it bore at the enumeration), new_from_window returns the
\* error "Window is not found" when no title contains the caption with case
\* ignored, and otherwise goes on with the first window whose title does.
SameLetter(a, b) == Lower(a) = Lower(b)

TitleHasCaption(title, caption) ==
    \E off \in 0..(Len(title) - Len(caption)) :
        \A i \in 1..Len(caption) : SameLetter(title[off + i], caption[i])

MatchingWindows(caption) ==
    {i \in 1..Len(dev.windows) : TitleHasCaption(dev.windows[i], caption)}

C25_RangeAndWindowErrors ==
    /\ (/\ dev.call = "displays"
        /\ dev.msg \notin {"EnumDisplayMonitors failed!", "GetMonitorInfoW failed!"}
        /\ (dev.display_id = 0 \/ dev.display_id > env.nDisplays)) =>
           (dev.st = "Err" /\ dev.msg = "DisplayId is out of range")
    /\ (dev.call = "window" /\ dev.pc = "idle" /\ dev.msg # "EnumWindows failed!") =>
           IF MatchingWindows(dev.caption) = {}
           THEN dev.st = "Err" /\ dev.msg = "Window is not found"
           ELSE /\ dev.msg # "Window is not found"
                /\ dev.index \in MatchingWindows(dev.caption)
                /\ \A i \in MatchingWindows(dev.caption) : dev.index <= i

\* The second of two windows is the first whose title contains the caption,
\* and only with case ignored.
C25_Witness ==
    /\ dev.call = "window"
    /\ dev.st = "Ok"
    /\ dev.caption = <<"A", "b">>
    /\ Len(dev.windows) = 2
    /\ dev.index = 2

====
